---- MODULE Spec2Model ----
(***************************************************************************)
(* Purchase lifecycle and access control of the neurobridge backend:       *)
(* checkout initiation, payment reconciliation (verification pull and      *)
(* webhook handlers), fulfillment (PostPurchase) creation and the post     *)
(* access check, modelled from src/app/src/routes/stripe.py,               *)
(* src/app/src/routes/posts.py and src/app/src/routes/post_purchases.py.   *)
(***************************************************************************)
EXTENDS Integers, Sequences, FiniteSets, TLC

(***************************************************************************)
(* Bounds of the model.                                                    *)
(***************************************************************************)
\* number of checkout sessions the processor may open
MaxSessions == 2
\* largest evaluation time (datetime.now()) an access check may read
MaxTime == 1
\* number of webhook deliveries handled at the same time
NumHandlers == 2
\* number of create-payment-intent requests handled at the same time
NumCreators == 2
\* number of payment intents the processor may confirm for such requests
MaxIntents == 2

(***************************************************************************)
(* Encodings.                                                              *)
(***************************************************************************)
\* SQL NULL / Python None of a handle or of a numeric reference
NULL == 0
\* SQL NULL of Post.price (a Float column; real prices are >= 0)
NoPrice == -1
\* a metadata key that the request does not carry (dict.get gives None)
Absent == "<absent>"

(***************************************************************************)
(* Input domains.                                                          *)
(***************************************************************************)
\* request.metadata: the userId and contentId keys of the checkout requests
Metadatas == {[userId |-> "7", contentId |-> "p1"], [userId |-> "07", contentId |-> "p2"],
              [userId |-> Absent, contentId |-> "p1"]}
\* post_id parameter of the access check and of the direct fulfillment creation
PostIds == {"p1", "p2", "p9"}
\* purchase_id query parameter of the direct fulfillment creation
ParamPurchaseIds == {NULL}
\* request.priceId
PriceIds == {"price_123", "price_bad"}
\* rows of the users table (User.user_id)
Users == {7}
\* user_id query parameter of the direct fulfillment creation
ParamUserIds == {7, 8}
\* user_id path parameter of the access check
PathUserIds == {"7", "07", "None"}
\* session.payment_status as reported by the processor
PaymentStatuses == {"paid", "unpaid", "no_payment_required"}
\* event['type'] of a verified webhook event
EventTypes == {"checkout.session.completed", "checkout.session.expired",
               "payment_intent.succeeded", "payment_intent.payment_failed",
               "customer.created"}
\* outcome of the signature check of a webhook request
SigOutcomes == {"ok", "missing", "invalid", "bad_payload"}
\* Post.tier values
Tiers == {"free", "premium"}
\* Post.price values
Prices == {NoPrice, 0, 20}
\* Post.scheduled_time of the one catalogued post
SchedTime == 1

\* prices registered at the processor: stripe.Price.retrieve(priceId)
PriceTable == [p \in {"price_123"} |-> [unit_amount |-> 2000, currency |-> "usd"]]

VARIABLES
  purchases,       \* table ariadne.purchases: row i has id i
  post_purchases,  \* table ariadne.post_purchases: row k has id k
  posts,           \* table ariadne.posts: post id -> row
  nsessions,       \* checkout sessions opened at the processor (handles 1..nsessions)
  handlers,        \* webhook deliveries in flight: position and the Purchase row found
  customers,       \* table ariadne.users: user_id -> stripe_customer_id (NULL when none)
  paid,            \* checkout sessions the processor reports as paid
  events,          \* events the processor has sent and the application has not handled yet
  pull,            \* the verification pull in flight: position and what it has fetched
  creators,        \* create-payment-intent requests in flight: position and the intent made
  intents          \* payment intents at the processor: intent n has handle IntentHandle(n)

\* what the requests handled to completion never touch
inflight == <<customers, paid, events, pull, creators, intents>>

vars == <<purchases, post_purchases, posts, nsessions, handlers, inflight>>

(***************************************************************************)
(* Conversions.                                                            *)
(***************************************************************************)
\* str(x) of a metadata value: str(None) is "None", str of a string is itself
PyStr(v) == IF v = Absent THEN "None" ELSE v

\* int(s) succeeds (no ValueError)
CanInt(s) == s \in {"7", "07"}

\* int(s) for a string of decimal digits: leading zeros are dropped
PyInt(s) == CASE s = "7" -> 7 [] s = "07" -> 7

(***************************************************************************)
(* Queries.                                                                *)
(***************************************************************************)
\* the least element of a non-empty set of row ids: what .first() returns
First(S) == CHOOSE i \in S : \A j \in S : i <= j

\* variant: when no row has the session handle the most recent Purchase is taken
FindBySession_LatestFallback(P, sid) ==
  LET S == {i \in DOMAIN P : P[i].stripe_session_id = sid} IN
  IF S # {} THEN First(S) ELSE IF P = <<>> THEN NULL ELSE Len(P)

\* db.query(Purchase).filter(Purchase.stripe_session_id == sid).first(): row id or NULL
FindBySession(P, sid) ==
  LET S == {i \in DOMAIN P : P[i].stripe_session_id = sid} IN
  IF S = {} THEN NULL ELSE First(S)

\* variant: the lookup compares the session handle column
FindByIntent_SessionColumn(P, pi) ==
  LET S == {i \in DOMAIN P : P[i].stripe_session_id = pi} IN
  IF S = {} THEN NULL ELSE First(S)

\* db.query(Purchase).filter(Purchase.stripe_payment_intent_id == pi).first()
FindByIntent(P, pi) ==
  LET S == {i \in DOMAIN P : P[i].stripe_payment_intent_id = pi} IN
  IF S = {} THEN NULL ELSE First(S)

\* db.query(PostPurchase).filter(user_id == uid, post_id == pid).first() is not None
ExistingPostPurchase(PP, uid, pid) ==
  \E k \in DOMAIN PP : PP[k].user_id = uid /\ PP[k].post_id = pid

\* variant: the status filter is missing from the query
CompletedPurchase_AnyStatus(P, uid, pid) ==
  LET S == {i \in DOMAIN P : P[i].user_id = uid /\ P[i].content_id = pid} IN
  IF S = {} THEN NULL ELSE First(S)

\* db.query(Purchase).filter(user_id == uid, content_id == pid, status == 'completed').first()
CompletedPurchase(P, uid, pid) ==
  LET S == {i \in DOMAIN P : P[i].user_id = uid /\ P[i].content_id = pid
                             /\ P[i].status = "completed"} IN
  IF S = {} THEN NULL ELSE First(S)

\* foreign keys of a PostPurchase row: users.user_id, posts.id, purchases.id (nullable)
ForeignKeysHold(P, uid, pid, purchase_id) ==
  /\ uid \in Users
  /\ pid \in DOMAIN posts
  /\ purchase_id = NULL \/ purchase_id \in DOMAIN P

\* what a handler leaves behind: the HTTP status and the tables
Out(code, P, PP, ns) == [code |-> code, purchases |-> P, post_purchases |-> PP, nsessions |-> ns]

(***************************************************************************)
(* Checkout Initiator.                                                     *)
(***************************************************************************)
\* variant: the row is created already completed
NewPurchase_Completed(userId, contentId, sid, price) ==
  [user_id |-> PyStr(userId), content_id |-> PyStr(contentId),
   stripe_session_id |-> sid, stripe_payment_intent_id |-> NULL,
   amount |-> price.unit_amount, currency |-> price.currency, status |-> "completed"]

\* Purchase(user_id=str(..), content_id=str(..), stripe_session_id=.., amount=.., currency=.., status='pending')
NewPurchase(userId, contentId, sid, price) ==
  [user_id |-> PyStr(userId), content_id |-> PyStr(contentId),
   stripe_session_id |-> sid, stripe_payment_intent_id |-> NULL,
   amount |-> price.unit_amount, currency |-> price.currency, status |-> "pending"]

\* variant: the pending row is committed before the processor is called
create_checkout_session_InsertFirst(P, PP, ns, userId, contentId, priceId, stripeOk, dbOk) ==
  LET row == [user_id |-> PyStr(userId), content_id |-> PyStr(contentId),
              stripe_session_id |-> NULL, stripe_payment_intent_id |-> NULL,
              amount |-> 0, currency |-> "usd", status |-> "pending"] IN
  IF priceId \notin DOMAIN PriceTable \/ ~stripeOk
  THEN [out |-> Out(400, Append(P, row), PP, ns), sessionId |-> NULL]
  ELSE IF dbOk
  THEN [out |-> Out(200, Append(P, [row EXCEPT !.stripe_session_id = ns + 1,
                                               !.amount = PriceTable[priceId].unit_amount,
                                               !.currency = PriceTable[priceId].currency]),
                    PP, ns + 1),
        sessionId |-> ns + 1]
  ELSE [out |-> Out(500, P, PP, ns + 1), sessionId |-> NULL]

\* variant: a new checkout expires the pending Purchases of the same pair
create_checkout_session_SupersedePending(P, PP, ns, userId, contentId, priceId, stripeOk, dbOk) ==
  IF priceId \notin DOMAIN PriceTable \/ ~stripeOk
  THEN [out |-> Out(400, P, PP, ns), sessionId |-> NULL]
  ELSE IF dbOk
  THEN [out |-> Out(200, Append([i \in DOMAIN P |->
                                   IF /\ P[i].user_id = PyStr(userId)
                                      /\ P[i].content_id = PyStr(contentId)
                                      /\ P[i].status = "pending"
                                   THEN [P[i] EXCEPT !.status = "expired"] ELSE P[i]],
                                NewPurchase(userId, contentId, ns + 1, PriceTable[priceId])),
                    PP, ns + 1),
        sessionId |-> ns + 1]
  ELSE [out |-> Out(500, P, PP, ns + 1), sessionId |-> NULL]

\* POST /stripe/create-checkout-session on tables P, PP with ns sessions at the
\* processor; sessionId is the handle in the response (NULL when there is none)
create_checkout_session(P, PP, ns, userId, contentId, priceId, stripeOk, dbOk) ==
  IF priceId \notin DOMAIN PriceTable \/ ~stripeOk
  THEN \* stripe.error.StripeError from Price.retrieve or Session.create
       [out |-> Out(400, P, PP, ns), sessionId |-> NULL]
  ELSE IF dbOk
  THEN [out |-> Out(200, Append(P, NewPurchase(userId, contentId, ns + 1, PriceTable[priceId])),
                    PP, ns + 1),
        sessionId |-> ns + 1]
  ELSE \* db.commit() raises: rollback, the session stays at the processor
       [out |-> Out(500, P, PP, ns + 1), sessionId |-> NULL]

(***************************************************************************)
(* Payment Event Reconciler: verification pull.                            *)
(***************************************************************************)
\* variant: the session's handle replaces a stored one
VerifyIntent_Overwrite(stored, session_pi) ==
  IF session_pi # NULL THEN session_pi ELSE stored

\* lines 202-204: backfill of the payment-intent handle
VerifyIntent(stored, session_pi) ==
  IF session_pi # NULL /\ stored = NULL THEN session_pi ELSE stored

\* variant: the unpaid branch is missing
VerifyStatus_PaidOnly(stored, payment_status) ==
  IF payment_status = "paid" THEN "completed" ELSE stored

\* variant: every payment status other than paid marks the Purchase failed
VerifyStatus_ElseFailed(stored, payment_status) ==
  IF payment_status = "paid" THEN "completed" ELSE "failed"

\* lines 206-210: status from the processor's payment status
VerifyStatus(stored, payment_status) ==
  IF payment_status = "paid" THEN "completed"
  ELSE IF payment_status = "unpaid" THEN "failed"
  ELSE stored

\* variant: the check for a missing Purchase row is absent, the update then
\* raises on None and ends in the generic handler
verify_payment_NoRowCheck(P, PP, ns, sid, stripeOk, payment_status, session_pi, dbOk) ==
  LET i == FindBySession(P, sid) IN
  IF sid > ns \/ ~stripeOk
  THEN [out |-> Out(400, P, PP, ns), success |-> FALSE]
  ELSE IF i # NULL /\ dbOk
  THEN [out |-> Out(200, [P EXCEPT ![i].stripe_payment_intent_id = VerifyIntent(@, session_pi),
                                   ![i].status = VerifyStatus(@, payment_status)],
                    PP, ns),
        success |-> (payment_status = "paid")]
  ELSE [out |-> Out(500, P, PP, ns), success |-> FALSE]

\* POST /stripe/verify-payment; success is the response's success flag
verify_payment(P, PP, ns, sid, stripeOk, payment_status, session_pi, dbOk) ==
  LET i == FindBySession(P, sid) IN
  IF sid > ns \/ ~stripeOk
  THEN \* stripe.error.StripeError from Session.retrieve
       [out |-> Out(400, P, PP, ns), success |-> FALSE]
  ELSE IF i = NULL
  THEN [out |-> Out(404, P, PP, ns), success |-> FALSE]
  ELSE IF dbOk
  THEN [out |-> Out(200, [P EXCEPT ![i].stripe_payment_intent_id = VerifyIntent(@, session_pi),
                                   ![i].status = VerifyStatus(@, payment_status)],
                    PP, ns),
        success |-> (payment_status = "paid")]
  ELSE \* db.commit() raises: rollback
       [out |-> Out(500, P, PP, ns), success |-> FALSE]

(***************************************************************************)
(* Fulfillment Recorder (inside handle_checkout_session_completed).        *)
(***************************************************************************)
\* PostPurchase(user_id=int(purchase.user_id), post_id=purchase.content_id, purchase_id=purchase.id, ...)
NewPostPurchase(P, i) ==
  [user_id |-> PyInt(P[i].user_id), post_id |-> P[i].content_id, purchase_id |-> i,
   amount |-> P[i].amount, currency |-> P[i].currency]

\* variant: the existence check is skipped
FulfillmentExists_NoCheck(P, PP, i) == FALSE

\* lines 316-320: the existence check for the Purchase row i
FulfillmentExists(P, PP, i) ==
  ExistingPostPurchase(PP, PyInt(P[i].user_id), P[i].content_id)

\* lines 322-331: db.add(post_purchase); db.commit(); the table has no unique
\* constraint on (user_id, post_id), only its foreign keys can refuse the row
InsertFulfillment(P, PP, i, dbOk) ==
  IF dbOk /\ ForeignKeysHold(P, PyInt(P[i].user_id), P[i].content_id, i)
  THEN Append(PP, NewPostPurchase(P, i))
  ELSE PP

\* lines 312-338: create the PostPurchase row of purchase i unless one exists;
\* a ValueError of int() or a failed insert is caught and logged
RecordFulfillment(P, PP, i, dbOk) ==
  IF ~CanInt(P[i].user_id) THEN PP
  ELSE IF FulfillmentExists(P, PP, i) THEN PP
  ELSE InsertFulfillment(P, PP, i, dbOk)

(***************************************************************************)
(* Payment Event Reconciler: webhook handlers.                             *)
(***************************************************************************)
\* lines 305-309: purchase.status = 'completed', payment intent from the event
CompletedUpdate(P, i, session_pi) ==
  [P EXCEPT ![i].status = "completed",
            ![i].stripe_payment_intent_id = IF session_pi # NULL THEN session_pi ELSE @]

\* variant: one transaction, a failed PostPurchase creation undoes the Purchase update
handle_checkout_session_completed_OneTransaction(P, PP, ns, sid, session_pi, dbOk1, dbOk2) ==
  LET i == FindBySession(P, sid) IN
  IF i = NULL \/ ~dbOk1 THEN Out(200, P, PP, ns)
  ELSE LET Q == CompletedUpdate(P, i, session_pi) IN
       IF \/ ~CanInt(Q[i].user_id)
          \/ ~FulfillmentExists(Q, PP, i) /\ InsertFulfillment(Q, PP, i, dbOk2) = PP
       THEN Out(200, P, PP, ns)
       ELSE Out(200, Q, RecordFulfillment(Q, PP, i, dbOk2), ns)

handle_checkout_session_completed(P, PP, ns, sid, session_pi, dbOk1, dbOk2) ==
  LET i == FindBySession(P, sid) IN
  IF i = NULL \/ ~dbOk1 THEN Out(200, P, PP, ns)
  ELSE LET Q == CompletedUpdate(P, i, session_pi) IN
       Out(200, Q, RecordFulfillment(Q, PP, i, dbOk2), ns)

\* variant: every pending Purchase is expired, not only the one of the session
handle_checkout_session_expired_AllPending(P, PP, ns, sid, dbOk) ==
  LET i == FindBySession(P, sid) IN
  IF i = NULL \/ ~dbOk THEN Out(200, P, PP, ns)
  ELSE Out(200, [j \in DOMAIN P |->
                   IF j = i \/ P[j].status = "pending"
                   THEN [P[j] EXCEPT !.status = "expired"] ELSE P[j]], PP, ns)

handle_checkout_session_expired(P, PP, ns, sid, dbOk) ==
  LET i == FindBySession(P, sid) IN
  IF i = NULL \/ ~dbOk THEN Out(200, P, PP, ns)
  ELSE Out(200, [P EXCEPT ![i].status = "expired"], PP, ns)

\* variant: completing a Purchase that is already completed is an error
handle_payment_intent_succeeded_Strict(P, PP, ns, pi, dbOk) ==
  LET i == FindByIntent(P, pi) IN
  IF i = NULL \/ ~dbOk THEN Out(200, P, PP, ns)
  ELSE IF P[i].status = "completed" THEN Out(500, P, PP, ns)
  ELSE Out(200, [P EXCEPT ![i].status = "completed"], PP, ns)

handle_payment_intent_succeeded(P, PP, ns, pi, dbOk) ==
  LET i == FindByIntent(P, pi) IN
  IF i = NULL \/ ~dbOk THEN Out(200, P, PP, ns)
  ELSE Out(200, [P EXCEPT ![i].status = "completed"], PP, ns)

\* variant: a storage failure is not caught and ends the request with an error
handle_payment_intent_failed_Propagates(P, PP, ns, pi, dbOk) ==
  LET i == FindByIntent(P, pi) IN
  IF i = NULL THEN Out(200, P, PP, ns)
  ELSE IF ~dbOk THEN Out(500, P, PP, ns)
  ELSE Out(200, [P EXCEPT ![i].status = "failed"], PP, ns)

handle_payment_intent_failed(P, PP, ns, pi, dbOk) ==
  LET i == FindByIntent(P, pi) IN
  IF i = NULL \/ ~dbOk THEN Out(200, P, PP, ns)
  ELSE Out(200, [P EXCEPT ![i].status = "failed"], PP, ns)

\* variant: the event is dispatched before its signature is checked
stripe_webhook_DispatchFirst(P, PP, ns, sig, type, id, session_pi, dbOk1, dbOk2) ==
  LET r == IF type = "checkout.session.completed"
             THEN handle_checkout_session_completed(P, PP, ns, id, session_pi, dbOk1, dbOk2)
           ELSE IF type = "checkout.session.expired"
             THEN handle_checkout_session_expired(P, PP, ns, id, dbOk1)
           ELSE IF type = "payment_intent.succeeded"
             THEN handle_payment_intent_succeeded(P, PP, ns, id, dbOk1)
           ELSE IF type = "payment_intent.payment_failed"
             THEN handle_payment_intent_failed(P, PP, ns, id, dbOk1)
           ELSE Out(200, P, PP, ns) IN
  IF sig # "ok" THEN [r EXCEPT !.code = 400] ELSE r

\* POST /stripe/webhook: signature check, then dispatch on event['type'];
\* id is the id of event['data']['object'], session_pi its payment_intent
stripe_webhook(P, PP, ns, sig, type, id, session_pi, dbOk1, dbOk2) ==
  IF sig # "ok" THEN Out(400, P, PP, ns)
  ELSE IF type = "checkout.session.completed"
    THEN handle_checkout_session_completed(P, PP, ns, id, session_pi, dbOk1, dbOk2)
  ELSE IF type = "checkout.session.expired"
    THEN handle_checkout_session_expired(P, PP, ns, id, dbOk1)
  ELSE IF type = "payment_intent.succeeded"
    THEN handle_payment_intent_succeeded(P, PP, ns, id, dbOk1)
  ELSE IF type = "payment_intent.payment_failed"
    THEN handle_payment_intent_failed(P, PP, ns, id, dbOk1)
  ELSE Out(200, P, PP, ns)

(***************************************************************************)
(* Direct fulfillment creation.                                            *)
(***************************************************************************)
\* variant: the check for an existing PostPurchase of the pair is missing
create_post_purchase_NoConflictCheck(P, PP, ns, user_id, post_id, purchase_id, amount, currency, dbOk) ==
  IF user_id \notin Users \/ post_id \notin DOMAIN posts THEN Out(404, P, PP, ns)
  ELSE IF dbOk /\ ForeignKeysHold(P, user_id, post_id, purchase_id)
  THEN Out(200, P, Append(PP, [user_id |-> user_id, post_id |-> post_id,
                               purchase_id |-> purchase_id, amount |-> amount,
                               currency |-> currency]), ns)
  ELSE Out(500, P, PP, ns)

\* POST /post-purchases/create
create_post_purchase(P, PP, ns, user_id, post_id, purchase_id, amount, currency, dbOk) ==
  IF user_id \notin Users \/ post_id \notin DOMAIN posts THEN Out(404, P, PP, ns)
  ELSE IF ExistingPostPurchase(PP, user_id, post_id) THEN Out(409, P, PP, ns)
  ELSE IF dbOk /\ ForeignKeysHold(P, user_id, post_id, purchase_id)
  THEN Out(200, P, Append(PP, [user_id |-> user_id, post_id |-> post_id,
                               purchase_id |-> purchase_id, amount |-> amount,
                               currency |-> currency]), ns)
  ELSE Out(500, P, PP, ns)

(***************************************************************************)
(* Payment with a saved payment method: POST /stripe/create-payment-intent *)
(* on the users table C (user_id -> stripe_customer_id) with ni payment     *)
(* intents at the processor.                                               *)
(***************************************************************************)
\* handle of the n-th payment intent made by create_payment_intent, apart from
\* the handles of checkout sessions and of their payment intents
IntentHandle(n) == MaxSessions + 1 + n

\* request bodies: metadata as for a checkout, and one for a user that does not exist
IntentMetadatas == Metadatas \cup {[userId |-> "8", contentId |-> "p1"]}
\* body.get("amount")
Amounts == {NULL, 2000}
\* body.get("paymentMethodId")
PaymentMethodIds == {Absent, "pm_1"}

\* what lines 526-573 leave behind: the status when the handler ends there (NULL
\* when it goes on to the insert), the users table, the number of intents at
\* the processor, and the handle of the intent made
Confirmed(code, C, ni, pi) == [code |-> code, customers |-> C, nintents |-> ni, pi |-> pi]

\* lines 555-562: stripe.Customer.create, user.stripe_customer_id = ..., db.commit()
WithCustomer(C, uid) == IF C[uid] = NULL THEN [C EXCEPT ![uid] = uid] ELSE C

\* lines 526-573: validation, user lookup, customer creation and
\* stripe.PaymentIntent.create(..., confirm=True)
ConfirmIntent(C, ni, userId, amount, paymentMethodId, custOk, dbOk1, piOk) ==
  IF amount = NULL \/ paymentMethodId = Absent THEN Confirmed(400, C, ni, NULL)
  ELSE IF userId = Absent THEN Confirmed(401, C, ni, NULL)
  ELSE IF ~CanInt(userId)
    THEN \* ValueError of int(user_id): generic handler
         Confirmed(500, C, ni, NULL)
  ELSE IF PyInt(userId) \notin DOMAIN C THEN Confirmed(404, C, ni, NULL)
  ELSE IF C[PyInt(userId)] = NULL /\ ~custOk
    THEN \* stripe.error.StripeError from Customer.create
         Confirmed(400, C, ni, NULL)
  ELSE IF C[PyInt(userId)] = NULL /\ ~dbOk1
    THEN \* db.commit() of the customer id raises: rollback
         Confirmed(500, C, ni, NULL)
  ELSE IF ~piOk
    THEN \* stripe.error.StripeError from PaymentIntent.create; the customer id
         \* is already committed
         Confirmed(400, WithCustomer(C, PyInt(userId)), ni, NULL)
  ELSE Confirmed(NULL, WithCustomer(C, PyInt(userId)), ni + 1, IntentHandle(ni + 1))

\* Purchase(user_id=str(user_id), content_id=str(..), stripe_payment_intent_id=payment_intent.id, ..., status='pending')
NewIntentPurchase(userId, contentId, pi, amount) ==
  [user_id |-> PyStr(userId), content_id |-> PyStr(contentId),
   stripe_session_id |-> NULL, stripe_payment_intent_id |-> pi,
   amount |-> amount, currency |-> "usd", status |-> "pending"]

\* lines 575-587 and 597-603: db.add(purchase); db.commit(); the status and the table
InsertIntentPurchase(P, userId, contentId, pi, amount, dbOk2) ==
  IF dbOk2 THEN [code |-> 200, purchases |-> Append(P, NewIntentPurchase(userId, contentId, pi, amount))]
  ELSE [code |-> 500, purchases |-> P]

\* POST /stripe/create-payment-intent handled to completion: the status, the
\* purchases and users tables and the number of intents at the processor
create_payment_intent(P, C, ni, userId, contentId, amount, paymentMethodId, custOk, dbOk1, piOk, dbOk2) ==
  LET c == ConfirmIntent(C, ni, userId, amount, paymentMethodId, custOk, dbOk1, piOk)
      r == InsertIntentPurchase(P, userId, contentId, c.pi, amount, dbOk2) IN
  IF c.code # NULL
  THEN [code |-> c.code, purchases |-> P, customers |-> c.customers, nintents |-> c.nintents]
  ELSE [code |-> r.code, purchases |-> r.purchases, customers |-> c.customers,
        nintents |-> c.nintents]

(***************************************************************************)
(* Access Decision Evaluator.                                              *)
(***************************************************************************)
\* line 283: post.scheduled_time > current_time
ScheduledInFuture(post, current_time) == post.scheduled_time > current_time

\* variant: a post without a price is not taken as free
IsFree_NoNull(post) == post.tier = "free" \/ post.price = 0

\* line 290: post.tier == "free" or post.price == 0 or post.price is None
IsFree(post) == post.tier = "free" \/ post.price = 0 \/ post.price = NoPrice

\* variant: the free-content branch comes before the schedule check
check_post_access_FreeFirst(P, post_id, user_id, current_time) ==
  IF post_id \notin DOMAIN posts
    THEN [code |-> 404, hasAccess |-> FALSE, reason |-> "Post not found"]
  ELSE IF IsFree(posts[post_id])
    THEN [code |-> 200, hasAccess |-> TRUE, reason |-> "free_content"]
  ELSE IF ScheduledInFuture(posts[post_id], current_time)
    THEN [code |-> 404, hasAccess |-> FALSE, reason |-> "Post not available yet"]
  ELSE IF CompletedPurchase(P, user_id, post_id) # NULL
    THEN [code |-> 200, hasAccess |-> TRUE, reason |-> "purchased"]
  ELSE [code |-> 200, hasAccess |-> FALSE, reason |-> "not_purchased"]

\* GET /posts/{post_id}/access/{user_id}: the status, and hasAccess and reason of
\* the body (the detail of the HTTPException when the status is 404)
check_post_access(P, post_id, user_id, current_time) ==
  IF post_id \notin DOMAIN posts
    THEN [code |-> 404, hasAccess |-> FALSE, reason |-> "Post not found"]
  ELSE IF ScheduledInFuture(posts[post_id], current_time)
    THEN [code |-> 404, hasAccess |-> FALSE, reason |-> "Post not available yet"]
  ELSE IF IsFree(posts[post_id])
    THEN [code |-> 200, hasAccess |-> TRUE, reason |-> "free_content"]
  ELSE IF CompletedPurchase(P, user_id, post_id) # NULL
    THEN [code |-> 200, hasAccess |-> TRUE, reason |-> "purchased"]
  ELSE [code |-> 200, hasAccess |-> FALSE, reason |-> "not_purchased"]

\* the columns of a Post row, as serialised when the handler returns the row
PostColumns ==
  {"id", "image_url", "title", "user_id", "date", "read_time", "tags", "price",
   "html_content", "allow_comments", "tier", "collection", "attachments",
   "date_published", "user_name", "updated_at", "stripe_price_id", "stripe_product_id",
   "scheduled_time"}

\* lines 314-322: the keys of the post summary of a denial
SummaryFields ==
  {"id", "title", "image_url", "price", "tier", "stripe_price_id", "stripe_product_id"}

\* variant: the denial returns the Post row like the grants do
check_post_access_body_FullPost(P, post_id, user_id, current_time) ==
  IF post_id \notin DOMAIN posts
    THEN [code |-> 404, hasAccess |-> FALSE, reason |-> "Post not found",
          purchaseId |-> NULL, post |-> {}]
  ELSE IF ScheduledInFuture(posts[post_id], current_time)
    THEN [code |-> 404, hasAccess |-> FALSE, reason |-> "Post not available yet",
          purchaseId |-> NULL, post |-> {}]
  ELSE IF IsFree(posts[post_id])
    THEN [code |-> 200, hasAccess |-> TRUE, reason |-> "free_content",
          purchaseId |-> NULL, post |-> PostColumns]
  ELSE IF CompletedPurchase(P, user_id, post_id) # NULL
    THEN [code |-> 200, hasAccess |-> TRUE, reason |-> "purchased",
          purchaseId |-> CompletedPurchase(P, user_id, post_id), post |-> PostColumns]
  ELSE [code |-> 200, hasAccess |-> FALSE, reason |-> "not_purchased",
        purchaseId |-> NULL, post |-> PostColumns]

\* GET /posts/{post_id}/access/{user_id}: the whole response: status, hasAccess,
\* reason, purchaseId and the keys of "post" (none when the status is 404)
check_post_access_body(P, post_id, user_id, current_time) ==
  IF post_id \notin DOMAIN posts
    THEN [code |-> 404, hasAccess |-> FALSE, reason |-> "Post not found",
          purchaseId |-> NULL, post |-> {}]
  ELSE IF ScheduledInFuture(posts[post_id], current_time)
    THEN [code |-> 404, hasAccess |-> FALSE, reason |-> "Post not available yet",
          purchaseId |-> NULL, post |-> {}]
  ELSE IF IsFree(posts[post_id])
    THEN [code |-> 200, hasAccess |-> TRUE, reason |-> "free_content",
          purchaseId |-> NULL, post |-> PostColumns]
  ELSE IF CompletedPurchase(P, user_id, post_id) # NULL
    THEN [code |-> 200, hasAccess |-> TRUE, reason |-> "purchased",
          purchaseId |-> CompletedPurchase(P, user_id, post_id), post |-> PostColumns]
  ELSE [code |-> 200, hasAccess |-> FALSE, reason |-> "not_purchased",
        purchaseId |-> NULL, post |-> SummaryFields]

(***************************************************************************)
(* The state after construction: empty purchase tables, no delivery in     *)
(* flight, a catalogue of a paid post p1 that becomes available at         *)
(* SchedTime and a free post p2.                                           *)
(***************************************************************************)
Idle == [pc |-> "idle", row |-> NULL]

\* no verification pull is running
IdlePull == [pc |-> "idle", sid |-> NULL, payment_status |-> "unpaid", session_pi |-> NULL,
             read_pi |-> NULL, read_status |-> "pending"]

\* no create-payment-intent request is running
IdleCreator == [pc |-> "idle", pi |-> NULL, userId |-> "7", contentId |-> "p1"]

InitTables ==
  /\ purchases = <<>>
  /\ post_purchases = <<>>
  /\ nsessions = 0
  /\ handlers = [h \in 1..NumHandlers |-> Idle]
  /\ customers = [u \in Users |-> NULL]
  /\ paid = {}
  /\ events = {}
  /\ pull = IdlePull
  /\ creators = [c \in 1..NumCreators |-> IdleCreator]
  /\ intents = <<>>

FreePost == [tier |-> "free", price |-> 0, scheduled_time |-> 0]

Init ==
  /\ InitTables
  /\ posts = [p \in {"p1", "p2"} |->
                IF p = "p1" THEN [tier |-> "premium", price |-> 20, scheduled_time |-> SchedTime]
                ELSE FreePost]

\* the catalogue with every tier and price of the post p1
InitAccess ==
  /\ InitTables
  /\ \E tier \in Tiers, price \in Prices :
       posts = [p \in {"p1", "p2"} |->
                  IF p = "p1" THEN [tier |-> tier, price |-> price, scheduled_time |-> SchedTime]
                  ELSE FreePost]

(***************************************************************************)
(* The requests, each handled to completion.  An input that the branch     *)
(* taken never reads is fixed instead of enumerated; the handler's result  *)
(* is bound once (\E r \in {..}) and then written to the tables.           *)
(***************************************************************************)
CheckoutRequest ==
  \E priceId \in PriceIds, stripeOk \in BOOLEAN :
    LET fails == priceId \notin DOMAIN PriceTable \/ ~stripeOk IN
    \E md \in IF fails THEN {[userId |-> "7", contentId |-> "p1"]} ELSE Metadatas,
       dbOk \in IF fails THEN {TRUE} ELSE BOOLEAN :
      \E r \in {create_checkout_session(purchases, post_purchases, nsessions,
                                       md.userId, md.contentId, priceId, stripeOk, dbOk)} :
      /\ r.out.nsessions <= MaxSessions
      /\ purchases' = r.out.purchases
      /\ post_purchases' = r.out.post_purchases
      /\ nsessions' = r.out.nsessions
      /\ UNCHANGED <<posts, handlers, inflight>>

VerifyRequest ==
  \E sid \in 1..MaxSessions, stripeOk \in BOOLEAN :
    LET fails == sid > nsessions \/ ~stripeOk \/ FindBySession(purchases, sid) = NULL IN
    \E dbOk \in IF fails THEN {TRUE} ELSE BOOLEAN :
     \E payment_status \in IF fails \/ ~dbOk THEN {"paid"} ELSE PaymentStatuses,
        hasPi \in IF fails \/ ~dbOk THEN {FALSE} ELSE BOOLEAN :
      \E r \in {verify_payment(purchases, post_purchases, nsessions, sid, stripeOk,
                              payment_status, IF hasPi THEN sid ELSE NULL, dbOk)} :
      /\ purchases' = r.out.purchases
      /\ post_purchases' = r.out.post_purchases
      /\ nsessions' = r.out.nsessions
      /\ UNCHANGED <<posts, handlers, inflight>>

WebhookRequest ==
  \E sig \in SigOutcomes :
   \E type \in IF sig = "ok" THEN EventTypes ELSE {"customer.created"} :
    LET completed == sig = "ok" /\ type = "checkout.session.completed"
        handled == sig = "ok" /\ type # "customer.created" IN
    \E id \in IF handled THEN 1..MaxSessions ELSE {1} :
     \E dbOk1 \in IF handled THEN BOOLEAN ELSE {TRUE} :
      \E hasPi \in IF completed /\ dbOk1 THEN BOOLEAN ELSE {FALSE},
         dbOk2 \in IF completed /\ dbOk1 THEN BOOLEAN ELSE {TRUE} :
        \E out \in {stripe_webhook(purchases, post_purchases, nsessions, sig, type, id,
                                  IF hasPi THEN id ELSE NULL, dbOk1, dbOk2)} :
        /\ purchases' = out.purchases
        /\ post_purchases' = out.post_purchases
        /\ nsessions' = out.nsessions
        /\ UNCHANGED <<posts, handlers, inflight>>

CreatePostPurchaseRequest ==
  \E user_id \in ParamUserIds, post_id \in PostIds :
    LET early == \/ user_id \notin Users \/ post_id \notin DOMAIN posts
                 \/ ExistingPostPurchase(post_purchases, user_id, post_id) IN
    \E purchase_id \in IF early THEN {NULL} ELSE ParamPurchaseIds,
       dbOk \in IF early THEN {TRUE} ELSE BOOLEAN :
      \E out \in {create_post_purchase(purchases, post_purchases, nsessions,
                                      user_id, post_id, purchase_id, 0, "usd", dbOk)} :
      /\ purchases' = out.purchases
      /\ post_purchases' = out.post_purchases
      /\ nsessions' = out.nsessions
      /\ UNCHANGED <<posts, handlers, inflight>>

\* the requests the application serves (main.py mounts the stripe and posts routers)
Next ==
  \/ CheckoutRequest
  \/ VerifyRequest
  \/ WebhookRequest

Spec == Init /\ [][Next]_vars

SpecAccess == InitAccess /\ [][Next]_vars

\* with the post-purchases router, which main.py does not mount, served as well
NextDirect ==
  \/ CheckoutRequest
  \/ VerifyRequest
  \/ WebhookRequest
  \/ CreatePostPurchaseRequest

SpecDirect == Init /\ [][NextDirect]_vars

(***************************************************************************)
(* Webhook deliveries of checkout.session.completed handled at the same    *)
(* time (several server processes on one database): the Purchase update,   *)
(* the existence check and the insert of the PostPurchase row are separate *)
(* database round trips.                                                   *)
(***************************************************************************)
\* lines 301-310: find the Purchase, mark it completed, commit
ConcReceive(h) ==
  /\ handlers[h].pc = "idle"
  /\ \E sid \in 1..MaxSessions, hasPi \in BOOLEAN, dbOk1 \in BOOLEAN :
       LET i == FindBySession(purchases, sid) IN
       IF i = NULL \/ ~dbOk1
       THEN UNCHANGED <<purchases, handlers>>
       ELSE /\ purchases' = CompletedUpdate(purchases, i, IF hasPi THEN sid ELSE NULL)
            /\ handlers' = [handlers EXCEPT ![h] = [pc |-> "check", row |-> i]]
  /\ UNCHANGED <<post_purchases, posts, nsessions, inflight>>

\* lines 316-322: the existence check (int() may raise, which ends the handler)
ConcCheck(h) ==
  /\ handlers[h].pc = "check"
  /\ LET i == handlers[h].row IN
     handlers' = [handlers EXCEPT ![h] =
        IF CanInt(purchases[i].user_id) /\ ~FulfillmentExists(purchases, post_purchases, i)
        THEN [pc |-> "insert", row |-> i] ELSE Idle]
  /\ UNCHANGED <<purchases, post_purchases, posts, nsessions, inflight>>

\* lines 323-331: the insert and its commit
ConcInsert(h) ==
  /\ handlers[h].pc = "insert"
  /\ \E dbOk2 \in BOOLEAN :
       post_purchases' = InsertFulfillment(purchases, post_purchases, handlers[h].row, dbOk2)
  /\ handlers' = [handlers EXCEPT ![h] = Idle]
  /\ UNCHANGED <<purchases, posts, nsessions, inflight>>

NextConc ==
  \/ CheckoutRequest
  \/ \E h \in 1..NumHandlers : ConcReceive(h)
  \/ \E h \in 1..NumHandlers : ConcCheck(h)
  \/ \E h \in 1..NumHandlers : ConcInsert(h)

SpecConc == Init /\ [][NextConc]_vars

(***************************************************************************)
(* A verification pull running beside the webhook (several requests in     *)
(* flight on one database): the retrieval of the session at the processor, *)
(* the query for the Purchase and the commit of the update are separate    *)
(* round trips; the processor sends checkout.session.completed once the    *)
(* customer has paid.  The storage answers every call.                     *)
(***************************************************************************)
\* the customer pays the open session sid: the processor reports it paid from now
\* on and sends checkout.session.completed
CustomerPays ==
  \E sid \in (1..nsessions) \ paid :
    /\ paid' = paid \cup {sid}
    /\ events' = events \cup {[type |-> "checkout.session.completed", id |-> sid]}
    /\ UNCHANGED <<purchases, post_purchases, posts, nsessions, handlers, customers,
                   pull, creators, intents>>

\* POST /stripe/webhook with a verified event the processor has sent, handled to
\* completion
DeliverEvent ==
  \E e \in events :
    \E out \in {stripe_webhook(purchases, post_purchases, nsessions, "ok", e.type, e.id,
                              NULL, TRUE, TRUE)} :
      /\ purchases' = out.purchases
      /\ post_purchases' = out.post_purchases
      /\ events' = events \ {e}
      /\ UNCHANGED <<posts, nsessions, handlers, customers, paid, pull, creators, intents>>

\* line 189: stripe.checkout.Session.retrieve
PullFetch ==
  /\ pull.pc = "idle"
  /\ \E sid \in 1..nsessions, hasPi \in BOOLEAN :
       pull' = [IdlePull EXCEPT !.pc = "fetched", !.sid = sid,
                                !.payment_status = IF sid \in paid THEN "paid" ELSE "unpaid",
                                !.session_pi = IF hasPi THEN sid ELSE NULL]
  /\ UNCHANGED <<purchases, post_purchases, posts, nsessions, handlers, customers,
                 paid, events, creators, intents>>

\* lines 192-200: the query for the Purchase; 404 when there is none
PullRead ==
  /\ pull.pc = "fetched"
  /\ LET i == FindBySession(purchases, pull.sid) IN
     pull' = IF i = NULL THEN IdlePull
             ELSE [pull EXCEPT !.pc = "read",
                               !.read_pi = purchases[i].stripe_payment_intent_id,
                               !.read_status = purchases[i].status]
  /\ UNCHANGED <<purchases, post_purchases, posts, nsessions, handlers, customers,
                 paid, events, creators, intents>>

\* lines 202-212: the attributes set on the object that was read, and the commit,
\* which updates the columns whose value differs from the one read
PullWrite ==
  /\ pull.pc = "read"
  /\ LET i == FindBySession(purchases, pull.sid)
         new_pi == VerifyIntent(pull.read_pi, pull.session_pi)
         new_status == VerifyStatus(pull.read_status, pull.payment_status) IN
     purchases' = [purchases EXCEPT
                     ![i].stripe_payment_intent_id = IF new_pi # pull.read_pi THEN new_pi ELSE @,
                     ![i].status = IF new_status # pull.read_status THEN new_status ELSE @]
  /\ pull' = IdlePull
  /\ UNCHANGED <<post_purchases, posts, nsessions, handlers, customers, paid, events,
                 creators, intents>>

NextPull ==
  \/ CheckoutRequest
  \/ CustomerPays
  \/ DeliverEvent
  \/ PullFetch
  \/ PullRead
  \/ PullWrite

SpecPull == Init /\ [][NextPull]_vars

(***************************************************************************)
(* create-payment-intent requests beside the webhook: the processor        *)
(* confirms the payment inside PaymentIntent.create and sends              *)
(* payment_intent.succeeded or payment_intent.payment_failed on its own    *)
(* schedule, while the handler has still to insert the Purchase row.       *)
(***************************************************************************)
\* lines 526-573 of request c
CreatorConfirm(c) ==
  /\ creators[c].pc = "idle"
  /\ \E md \in IntentMetadatas, amount \in Amounts, paymentMethodId \in PaymentMethodIds,
        custOk \in BOOLEAN, dbOk1 \in BOOLEAN, piOk \in BOOLEAN :
       \E r \in {ConfirmIntent(customers, Len(intents), md.userId, amount, paymentMethodId,
                               custOk, dbOk1, piOk)} :
         /\ r.nintents <= MaxIntents
         /\ customers' = r.customers
         /\ intents' = IF r.nintents > Len(intents) THEN Append(intents, "processing")
                       ELSE intents
         /\ creators' = IF r.code = NULL
                        THEN [creators EXCEPT ![c] = [pc |-> "confirmed", pi |-> r.pi,
                                                      userId |-> md.userId,
                                                      contentId |-> md.contentId]]
                        ELSE creators
  /\ UNCHANGED <<purchases, post_purchases, posts, nsessions, handlers, paid, events, pull>>

\* lines 575-587 of request c (amount is the request's, the only one accepted)
CreatorInsert(c) ==
  /\ creators[c].pc = "confirmed"
  /\ \E dbOk2 \in BOOLEAN :
       purchases' = InsertIntentPurchase(purchases, creators[c].userId, creators[c].contentId,
                                         creators[c].pi, 2000, dbOk2).purchases
  /\ creators' = [creators EXCEPT ![c] = IdleCreator]
  /\ UNCHANGED <<post_purchases, posts, nsessions, handlers, customers, paid, events, pull,
                 intents>>

\* the processor settles a confirmed intent and sends the event
ProcessorSettles ==
  \E n \in DOMAIN intents, outcome \in {"succeeded", "payment_failed"} :
    /\ intents[n] = "processing"
    /\ intents' = [intents EXCEPT ![n] = outcome]
    /\ events' = events \cup {[type |-> "payment_intent." \o outcome, id |-> IntentHandle(n)]}
    /\ UNCHANGED <<purchases, post_purchases, posts, nsessions, handlers, customers, paid,
                   pull, creators>>

NextIntent ==
  \/ \E c \in 1..NumCreators : CreatorConfirm(c)
  \/ \E c \in 1..NumCreators : CreatorInsert(c)
  \/ ProcessorSettles
  \/ DeliverEvent

SpecIntent == Init /\ [][NextIntent]_vars

\* a request that has confirmed an intent goes on to its insert, and an event
\* the processor has sent is handled
SpecIntentFair ==
  /\ SpecIntent
  /\ \A c \in 1..NumCreators : WF_vars(CreatorInsert(c))
  /\ WF_vars(DeliverEvent)

(***************************************************************************)
(* Properties.                                                             *)
(***************************************************************************)
Terminal == {"completed", "failed", "expired"}

\* no two PostPurchase rows for one (user, post) pair
UniqueFulfillment(PP) ==
  \A k1, k2 \in DOMAIN PP :
    (PP[k1].user_id = PP[k2].user_id /\ PP[k1].post_id = PP[k2].post_id) => k1 = k2

\* the number of PostPurchase rows of a (user, post) pair
PairCount(PP, uid, pid) ==
  Cardinality({k \in DOMAIN PP : PP[k].user_id = uid /\ PP[k].post_id = pid})

\* C1: a step changes the status of a Purchase only from pending to completed,
\* failed or expired; a completed, failed or expired Purchase keeps its status.
C1_StatusOnlyLeavesPending ==
  [][\A i \in DOMAIN purchases :
       purchases'[i].status # purchases[i].status
         => purchases[i].status = "pending" /\ purchases'[i].status \in Terminal]_vars

C3_NoDuplicateUnderConcurrency == UniqueFulfillment(post_purchases)

ValidFulfillment(P, PP, user_id, post_id) ==
  /\ CanInt(user_id)
  /\ \E k \in DOMAIN PP :
       /\ PP[k].user_id = PyInt(user_id) /\ PP[k].post_id = post_id
       /\ PP[k].purchase_id = NULL \/ P[PP[k].purchase_id].status = "completed"

\* the posts the claim C6 is about: available at time t and not free-equivalent
AvailablePaid(post_id, t) ==
  /\ posts[post_id].scheduled_time <= t
  /\ posts[post_id].tier # "free"
  /\ posts[post_id].price # 0 /\ posts[post_id].price # NoPrice

C7_CheckoutAddsPending ==
  \A md \in Metadatas, priceId \in PriceIds, stripeOk \in BOOLEAN, dbOk \in BOOLEAN :
    \A r \in {create_checkout_session(purchases, post_purchases, nsessions,
                                      md.userId, md.contentId, priceId, stripeOk, dbOk)},
       n \in {Len(purchases)} :
       r.out.code = 200 =>
         /\ priceId \in DOMAIN PriceTable
         /\ Len(r.out.purchases) = n + 1
         /\ SubSeq(r.out.purchases, 1, n) = purchases
         /\ r.out.post_purchases = post_purchases
         /\ \A row \in {r.out.purchases[n + 1]} :
            /\ row.status = "pending"
            /\ row.amount = PriceTable[priceId].unit_amount
            /\ row.currency = PriceTable[priceId].currency
            /\ row.user_id = IF md.userId = Absent THEN "None" ELSE md.userId
            /\ row.content_id = md.contentId
            /\ row.stripe_payment_intent_id = NULL
            /\ row.stripe_session_id = r.sessionId
            /\ r.sessionId # NULL
            /\ FindBySession(purchases, r.sessionId) = NULL

\* the Purchase of the latest session is the last row: pending, 2000 usd, added
\* after a Purchase that is already completed
C7_Witness ==
  /\ Len(purchases) = 2
  /\ purchases[1].status = "completed"
  /\ purchases[2] = [user_id |-> "7", content_id |-> "p1", stripe_session_id |-> nsessions,
                     stripe_payment_intent_id |-> NULL, amount |-> 2000,
                     currency |-> "usd", status |-> "pending"]

\* C8: when the processor call fails (price lookup or session creation during
\* checkout initiation, session retrieval during a verification pull) the request
\* ends 400 and the Purchase rows, the PostPurchase rows and the processor's
\* sessions are what they were.
C8_ProcessorFailureNoChange ==
  /\ \A md \in Metadatas, priceId \in PriceIds, stripeOk \in BOOLEAN, dbOk \in BOOLEAN :
       (priceId \notin DOMAIN PriceTable \/ ~stripeOk) =>
         create_checkout_session(purchases, post_purchases, nsessions, md.userId,
                                 md.contentId, priceId, stripeOk, dbOk).out
           = Out(400, purchases, post_purchases, nsessions)
  /\ \A sid \in 1..(MaxSessions + 1), stripeOk \in BOOLEAN, ps \in PaymentStatuses,
        hasPi \in BOOLEAN, dbOk \in BOOLEAN :
       (sid > nsessions \/ ~stripeOk) =>
         verify_payment(purchases, post_purchases, nsessions, sid, stripeOk, ps,
                        IF hasPi THEN sid ELSE NULL, dbOk).out
           = Out(400, purchases, post_purchases, nsessions)

\* a pending Purchase whose verification pull fails at the processor, and a
\* checkout for an invalid price handle, with rows in both tables
C8_Witness ==
  /\ post_purchases # <<>>
  /\ \E i \in DOMAIN purchases :
       /\ purchases[i].status = "pending"
       /\ verify_payment(purchases, post_purchases, nsessions, purchases[i].stripe_session_id,
                         FALSE, "paid", NULL, TRUE).out.code = 400
  /\ create_checkout_session(purchases, post_purchases, nsessions, "7", "p1", "price_bad",
                             TRUE, TRUE).out.code = 400

\* C9: a verification pull (processor and storage answering) for a session with a
\* Purchase sets that Purchase's status to completed when the processor reports
\* paid and to failed when it reports unpaid, and changes the status of no other
\* Purchase.
C9_VerifySetsStatus ==
  \A sid \in 1..MaxSessions, ps \in {"paid", "unpaid"}, hasPi \in BOOLEAN :
    \A i \in {FindBySession(purchases, sid)},
       r \in {verify_payment(purchases, post_purchases, nsessions, sid, TRUE, ps,
                             IF hasPi THEN sid ELSE NULL, TRUE)} :
       (sid <= nsessions /\ i # NULL) =>
         /\ r.out.code = 200
         /\ r.success = (ps = "paid")
         /\ DOMAIN r.out.purchases = DOMAIN purchases
         /\ r.out.purchases[i].status = IF ps = "paid" THEN "completed" ELSE "failed"
         /\ \A j \in DOMAIN purchases \ {i} : r.out.purchases[j] = purchases[j]

\* a Purchase that is failed without a payment-intent handle (only an unpaid pull
\* leaves that) beside a Purchase that is still pending
C9_Witness ==
  \E i, j \in DOMAIN purchases :
    /\ purchases[i].status = "failed" /\ purchases[i].stripe_payment_intent_id = NULL
    /\ purchases[j].status = "pending"

\* C10: a verification pull for a session the processor knows but that has no
\* Purchase row ends 404 and changes no Purchase and no PostPurchase row.
C10_VerifyWithoutPurchase ==
  \A sid \in 1..MaxSessions, ps \in PaymentStatuses, hasPi \in BOOLEAN, dbOk \in BOOLEAN :
    (sid <= nsessions /\ FindBySession(purchases, sid) = NULL) =>
      verify_payment(purchases, post_purchases, nsessions, sid, TRUE, ps,
                     IF hasPi THEN sid ELSE NULL, dbOk).out
        = Out(404, purchases, post_purchases, nsessions)

\* an orphan session (its local insert failed) beside a completed Purchase and its
\* PostPurchase row
C10_Witness ==
  /\ \E sid \in 1..nsessions : FindBySession(purchases, sid) = NULL
  /\ \E i \in DOMAIN purchases : purchases[i].status = "completed"
  /\ post_purchases # <<>>

\* the ids an event may carry: every session or intent handle, and one that is unknown
EventIds == 1..(MaxSessions + 1)

\* C11: a webhook request whose signature header is missing, whose signature does
\* not verify or whose payload does not parse ends 400 whatever event it carries,
\* and the Purchase rows, the PostPurchase rows and the sessions are unchanged.
C11_BadSignatureRejected ==
  \A sig \in SigOutcomes \ {"ok"}, type \in EventTypes, id \in EventIds,
     hasPi \in BOOLEAN, dbOk1 \in BOOLEAN, dbOk2 \in BOOLEAN :
    stripe_webhook(purchases, post_purchases, nsessions, sig, type, id,
                   IF hasPi THEN id ELSE NULL, dbOk1, dbOk2)
      = Out(400, purchases, post_purchases, nsessions)

\* a pending Purchase whose session a verified checkout.session.completed event
\* would complete and fulfil, while the same event with an invalid signature is
\* rejected
C11_Witness ==
  \E i \in DOMAIN purchases :
    /\ purchases[i].status = "pending" /\ purchases[i].user_id = "7"
    /\ stripe_webhook(purchases, post_purchases, nsessions, "ok",
                      "checkout.session.completed", purchases[i].stripe_session_id,
                      NULL, TRUE, TRUE).post_purchases # post_purchases
    /\ stripe_webhook(purchases, post_purchases, nsessions, "invalid",
                      "checkout.session.completed", purchases[i].stripe_session_id,
                      NULL, TRUE, TRUE).code = 400

\* C12: a webhook request whose signature verifies is answered 200 for every event
\* kind and id, whether or not a Purchase matches and whether the Purchase update
\* or the PostPurchase insert fails at the storage.
C12_VerifiedAlwaysAcknowledged ==
  \A type \in EventTypes, id \in EventIds, hasPi \in BOOLEAN,
     dbOk1 \in BOOLEAN, dbOk2 \in BOOLEAN :
    stripe_webhook(purchases, post_purchases, nsessions, "ok", type, id,
                   IF hasPi THEN id ELSE NULL, dbOk1, dbOk2).code = 200

\* a Purchase with a payment-intent handle, for which payment_intent.payment_failed
\* arrives while the storage fails: acknowledged, the row unchanged
C12_Witness ==
  \E i \in DOMAIN purchases :
    /\ purchases[i].stripe_payment_intent_id # NULL
    /\ purchases[i].status = "completed"
    /\ stripe_webhook(purchases, post_purchases, nsessions, "ok",
                      "payment_intent.payment_failed",
                      purchases[i].stripe_payment_intent_id, NULL, FALSE, TRUE)
         = Out(200, purchases, post_purchases, nsessions)

\* a PostPurchase row exists for the (user, content) pair of the Purchase row i
HasFulfillment(P, PP, i) ==
  /\ CanInt(P[i].user_id)
  /\ ExistingPostPurchase(PP, PyInt(P[i].user_id), P[i].content_id)

\* every completed Purchase has a PostPurchase row for its pair
AllCompletedFulfilled(P, PP) ==
  \A i \in DOMAIN P : P[i].status = "completed" => HasFulfillment(P, PP, i)

\* C13: a verified checkout.session.completed event for a session with a Purchase,
\* handled while the storage answers, leaves that Purchase completed, with the
\* event's payment-intent handle when the event carries one, and with a
\* PostPurchase row for the Purchase's (user, content) pair.
C13_CompletedEventFulfils ==
  \A sid \in 1..MaxSessions, hasPi \in BOOLEAN :
    \A i \in {FindBySession(purchases, sid)},
       r \in {handle_checkout_session_completed(purchases, post_purchases, nsessions, sid,
                                                IF hasPi THEN sid ELSE NULL, TRUE, TRUE)} :
      i # NULL =>
        /\ r.code = 200
        /\ r.purchases[i].status = "completed"
        /\ hasPi => r.purchases[i].stripe_payment_intent_id = sid
        /\ HasFulfillment(r.purchases, r.post_purchases, i)

\* C14: an operation that runs while the storage answers (a verification pull that
\* finds the session paid, a payment_intent.succeeded event, a
\* checkout.session.completed event), started where every completed Purchase has a
\* PostPurchase row for its pair, ends where every completed Purchase has one.
C14_CompletedImpliesFulfillment ==
  AllCompletedFulfilled(purchases, post_purchases) =>
    /\ \A sid \in 1..MaxSessions, hasPi \in BOOLEAN :
         \A r \in {verify_payment(purchases, post_purchases, nsessions, sid, TRUE, "paid",
                                  IF hasPi THEN sid ELSE NULL, TRUE).out} :
           AllCompletedFulfilled(r.purchases, r.post_purchases)
    /\ \A id \in EventIds :
         \A r \in {handle_payment_intent_succeeded(purchases, post_purchases, nsessions,
                                                   id, TRUE)} :
           AllCompletedFulfilled(r.purchases, r.post_purchases)
    /\ \A sid \in 1..MaxSessions, hasPi \in BOOLEAN :
         \A r \in {handle_checkout_session_completed(purchases, post_purchases, nsessions,
                                                     sid, IF hasPi THEN sid ELSE NULL,
                                                     TRUE, TRUE)} :
           AllCompletedFulfilled(r.purchases, r.post_purchases)

\* C15: every PostPurchase row has a Purchase of the same (user, content) pair
\* whose status is completed.
C15_FulfillmentHasCompletedPurchase ==
  \A k \in DOMAIN post_purchases :
    \E i \in DOMAIN purchases :
      /\ CanInt(purchases[i].user_id)
      /\ PyInt(purchases[i].user_id) = post_purchases[k].user_id
      /\ purchases[i].content_id = post_purchases[k].post_id
      /\ purchases[i].status = "completed"

\* the creation of the PostPurchase row of Purchase i fails: int() raises, or the
\* insert is tried and refused
FulfillmentFails(P, PP, i, dbOk2) ==
  \/ ~CanInt(P[i].user_id)
  \/ /\ ~FulfillmentExists(P, PP, i)
     /\ ~dbOk2 \/ ~ForeignKeysHold(P, PyInt(P[i].user_id), P[i].content_id, i)

\* C16: when a checkout.session.completed event has set the Purchase completed and
\* the creation of the PostPurchase row then fails (user reference not a number, or
\* the insert refused), the event is acknowledged, the Purchase is completed with
\* the event's payment-intent handle (its stored one when the event has none), no
\* PostPurchase row is added and no other Purchase changes.
C16_FulfillmentFailureKeepsCompleted ==
  \A sid \in 1..MaxSessions, hasPi \in BOOLEAN, dbOk2 \in BOOLEAN :
    \A i \in {FindBySession(purchases, sid)},
       r \in {handle_checkout_session_completed(purchases, post_purchases, nsessions, sid,
                                                IF hasPi THEN sid ELSE NULL, TRUE, dbOk2)} :
      (i # NULL /\ FulfillmentFails(purchases, post_purchases, i, dbOk2)) =>
        /\ r.code = 200
        /\ r.purchases[i] =
             [purchases[i] EXCEPT !.status = "completed",
                                  !.stripe_payment_intent_id = IF hasPi THEN sid ELSE @]
        /\ \A j \in DOMAIN purchases \ {i} : r.purchases[j] = purchases[j]
        /\ DOMAIN r.purchases = DOMAIN purchases
        /\ r.post_purchases = post_purchases

\* two pending Purchases: one whose user reference is not a number, one of user 7
\* whose PostPurchase insert is refused by the storage; the event completes both
\* without a PostPurchase row
C16_Witness ==
  \E i, j \in DOMAIN purchases :
    /\ purchases[i].user_id = "None" /\ purchases[i].status = "pending"
    /\ purchases[j].user_id = "7" /\ purchases[j].status = "pending"
    /\ post_purchases = <<>>
    /\ handle_checkout_session_completed(purchases, post_purchases, nsessions,
          purchases[i].stripe_session_id, purchases[i].stripe_session_id, TRUE, TRUE)
          .purchases[i].status = "completed"
    /\ handle_checkout_session_completed(purchases, post_purchases, nsessions,
          purchases[j].stripe_session_id, NULL, TRUE, FALSE)
          = Out(200, [purchases EXCEPT ![j].status = "completed"], <<>>, nsessions)

\* C17: a verified checkout.session.expired event for a session whose Purchase is
\* pending, handled while the storage answers, sets the status of that Purchase to
\* expired and changes nothing else: every other field and Purchase, the
\* PostPurchase rows and the sessions are what they were.
C17_ExpiredChangesOnlyStatus ==
  \A sid \in 1..MaxSessions :
    \A i \in {FindBySession(purchases, sid)} :
      (i # NULL /\ purchases[i].status = "pending") =>
        stripe_webhook(purchases, post_purchases, nsessions, "ok",
                       "checkout.session.expired", sid, NULL, TRUE, TRUE)
          = Out(200, [purchases EXCEPT ![i].status = "expired"], post_purchases, nsessions)

\* a pending Purchase that has a payment-intent handle, beside another pending
\* Purchase, expired by the event with its handle kept
C17_Witness ==
  \E i, j \in DOMAIN purchases :
    /\ i # j
    /\ purchases[i].status = "pending" /\ purchases[i].stripe_payment_intent_id # NULL
    /\ purchases[j].status = "pending"
    /\ \A r \in {handle_checkout_session_expired(purchases, post_purchases, nsessions,
                                                  purchases[i].stripe_session_id, TRUE)} :
         /\ r.purchases[i].status = "expired"
         /\ r.purchases[i].stripe_payment_intent_id = purchases[i].stripe_payment_intent_id
         /\ r.purchases[j] = purchases[j]

\* the status a payment-intent event kind sets
IntentStatus(type) == IF type = "payment_intent.succeeded" THEN "completed" ELSE "failed"

\* C18: a verified payment_intent.succeeded (payment_intent.payment_failed) event,
\* handled while the storage answers, sets the status of the Purchase whose stored
\* payment-intent handle is the event's id to completed (failed) and leaves its
\* other fields alone; every Purchase whose stored handle differs or is absent,
\* and every PostPurchase row, is unchanged.
C18_IntentEventSetsStatus ==
  \A type \in {"payment_intent.succeeded", "payment_intent.payment_failed"},
     id \in EventIds :
    \A r \in {stripe_webhook(purchases, post_purchases, nsessions, "ok", type, id,
                             NULL, TRUE, TRUE)} :
      /\ r.code = 200
      /\ DOMAIN r.purchases = DOMAIN purchases
      /\ r.post_purchases = post_purchases
      /\ \A j \in DOMAIN purchases :
           r.purchases[j] =
             IF purchases[j].stripe_payment_intent_id = id
             THEN [purchases[j] EXCEPT !.status = IntentStatus(type)]
             ELSE purchases[j]

\* a pending Purchase with a payment-intent handle beside a pending Purchase
\* without one: the events set the first completed, respectively failed, and leave
\* the second pending
C18_Witness ==
  \E i, j \in DOMAIN purchases :
    /\ purchases[i].status = "pending" /\ purchases[i].stripe_payment_intent_id # NULL
    /\ purchases[j].status = "pending" /\ purchases[j].stripe_payment_intent_id = NULL
    /\ \A r \in {handle_payment_intent_succeeded(purchases, post_purchases, nsessions,
                     purchases[i].stripe_payment_intent_id, TRUE)} :
         r.purchases[i].status = "completed" /\ r.purchases[j].status = "pending"
    /\ \A r \in {handle_payment_intent_failed(purchases, post_purchases, nsessions,
                     purchases[i].stripe_payment_intent_id, TRUE)} :
         r.purchases[i].status = "failed" /\ r.purchases[j].status = "pending"

\* the event of this kind and id matches no Purchase row, or its kind is not handled
MatchesNothing(P, type, id) ==
  IF type \in {"checkout.session.completed", "checkout.session.expired"}
    THEN \A i \in DOMAIN P : P[i].stripe_session_id # id
  ELSE IF type \in {"payment_intent.succeeded", "payment_intent.payment_failed"}
    THEN \A i \in DOMAIN P : P[i].stripe_payment_intent_id # id
  ELSE TRUE

\* C19: a verified event that matches no Purchase (a session handle without a row,
\* such as the session of a failed local insert, or an unknown payment-intent
\* handle) or whose kind is not handled is acknowledged 200 and changes no
\* Purchase, no PostPurchase row and no session, whatever the storage does.
C19_UnmatchedEventNoChange ==
  \A type \in EventTypes, id \in EventIds, hasPi \in BOOLEAN,
     dbOk1 \in BOOLEAN, dbOk2 \in BOOLEAN :
    MatchesNothing(purchases, type, id) =>
      stripe_webhook(purchases, post_purchases, nsessions, "ok", type, id,
                     IF hasPi THEN id ELSE NULL, dbOk1, dbOk2)
        = Out(200, purchases, post_purchases, nsessions)

\* a session of the processor without a Purchase row, beside a pending Purchase
\* without a payment-intent handle: checkout.session.completed for the former and
\* payment_intent.payment_failed for the latter's session number match nothing
C19_Witness ==
  \E sid \in 1..nsessions, i \in DOMAIN purchases :
    /\ \A j \in DOMAIN purchases : purchases[j].stripe_session_id # sid
    /\ purchases[i].status = "pending" /\ purchases[i].stripe_payment_intent_id = NULL
    /\ MatchesNothing(purchases, "checkout.session.completed", sid)
    /\ MatchesNothing(purchases, "payment_intent.payment_failed",
                      purchases[i].stripe_session_id)
    /\ stripe_webhook(purchases, post_purchases, nsessions, "ok",
                      "checkout.session.completed", sid, sid, TRUE, TRUE).purchases
         = purchases

\* C20: with the storage answering, handling a verified webhook event a second
\* time right after the first, or repeating a verification pull against the same
\* processor state, gives the same response and leaves the Purchase rows, the
\* PostPurchase rows and the sessions as the first handling left them.
C20_ReconcilerIdempotent ==
  /\ \A type \in EventTypes, id \in EventIds, hasPi \in BOOLEAN :
       \A pi \in {IF hasPi THEN id ELSE NULL} :
       \A r1 \in {stripe_webhook(purchases, post_purchases, nsessions, "ok", type, id,
                                 pi, TRUE, TRUE)} :
         /\ r1.code = 200
         /\ stripe_webhook(r1.purchases, r1.post_purchases, r1.nsessions, "ok", type, id,
                           pi, TRUE, TRUE) = r1
  /\ \A sid \in 1..MaxSessions, ps \in PaymentStatuses, hasPi \in BOOLEAN :
       \A pi \in {IF hasPi THEN sid ELSE NULL} :
       \A r1 \in {verify_payment(purchases, post_purchases, nsessions, sid, TRUE, ps,
                                 pi, TRUE)} :
         verify_payment(r1.out.purchases, r1.out.post_purchases, r1.out.nsessions, sid,
                        TRUE, ps, pi, TRUE) = r1

\* a pending Purchase of user 7 without a payment-intent handle: the first
\* checkout.session.completed event, and the first paid pull, change the tables;
\* the second one changes nothing more
C20_Witness ==
  \E i \in DOMAIN purchases :
    /\ purchases[i].status = "pending" /\ purchases[i].user_id = "7"
    /\ purchases[i].stripe_payment_intent_id = NULL
    /\ \A sid \in {purchases[i].stripe_session_id} :
       \A r1 \in {stripe_webhook(purchases, post_purchases, nsessions, "ok",
                                 "checkout.session.completed", sid, sid, TRUE, TRUE)},
          v1 \in {verify_payment(purchases, post_purchases, nsessions, sid, TRUE,
                                 "paid", sid, TRUE)} :
         /\ r1.purchases # purchases /\ r1.post_purchases # post_purchases
         /\ stripe_webhook(r1.purchases, r1.post_purchases, r1.nsessions, "ok",
                           "checkout.session.completed", sid, sid, TRUE, TRUE) = r1
         /\ v1.out.code = 200 /\ v1.out.purchases # purchases
         /\ verify_payment(v1.out.purchases, v1.out.post_purchases, v1.out.nsessions,
                           sid, TRUE, "paid", sid, TRUE) = v1

\* C21: with a verification pull running beside the webhook, once the processor
\* reports a session paid, its checkout.session.completed event has been handled
\* and no pull is in flight, the Purchase of the session is completed.
C21_NoLostUpdate ==
  \A sid \in paid :
    \A i \in {FindBySession(purchases, sid)} :
      ( /\ i # NULL
        /\ pull.pc = "idle"
        /\ [type |-> "checkout.session.completed", id |-> sid] \notin events ) =>
        purchases[i].status = "completed"

\* C22: for every (user, content) pair at most one Purchase is in status pending.
C22_OnePendingPerPair ==
  \A i, j \in DOMAIN purchases :
    ( /\ purchases[i].status = "pending" /\ purchases[j].status = "pending"
      /\ purchases[i].user_id = purchases[j].user_id
      /\ purchases[i].content_id = purchases[j].content_id ) => i = j

\* payment-intent handles a processor session may carry
SessionIntents == {NULL} \cup EventIds

\* C24: a verification pull that finds the Purchase and commits stores the
\* session's payment-intent handle exactly when the session carries one and the
\* Purchase has none; a stored handle is kept, whatever the payment status.
C24_BackfillOnlyWhenEmpty ==
  \A sid \in 1..nsessions, payment_status \in PaymentStatuses, session_pi \in SessionIntents :
    \A i \in {FindBySession(purchases, sid)} :
      \A r \in {verify_payment(purchases, post_purchases, nsessions, sid, TRUE,
                               payment_status, session_pi, TRUE)} :
        i # NULL =>
          /\ r.out.code = 200
          /\ r.out.purchases[i].stripe_payment_intent_id =
               IF purchases[i].stripe_payment_intent_id = NULL
               THEN session_pi ELSE purchases[i].stripe_payment_intent_id
          /\ \A j \in DOMAIN purchases :
               j # i => r.out.purchases[j].stripe_payment_intent_id =
                          purchases[j].stripe_payment_intent_id

\* a Purchase that already stores a payment-intent handle is pulled again while
\* its session carries another handle, and a Purchase without one is pulled too
C24_Witness ==
  /\ \E i \in DOMAIN purchases :
       /\ purchases[i].stripe_payment_intent_id # NULL
       /\ purchases[i].stripe_session_id # NULL
       /\ FindBySession(purchases, purchases[i].stripe_session_id) = i
       /\ \E session_pi \in SessionIntents \ {NULL, purchases[i].stripe_payment_intent_id} :
            verify_payment(purchases, post_purchases, nsessions, purchases[i].stripe_session_id,
                           TRUE, "unpaid", session_pi, TRUE).out.purchases[i].stripe_payment_intent_id
              = purchases[i].stripe_payment_intent_id
  /\ \E i \in DOMAIN purchases :
       /\ purchases[i].stripe_payment_intent_id = NULL
       /\ verify_payment(purchases, post_purchases, nsessions, purchases[i].stripe_session_id,
                         TRUE, "unpaid", 1, TRUE).out.purchases[i].stripe_payment_intent_id = 1

\* C28: for a payment status other than paid and unpaid a verification pull
\* leaves every Purchase's status as it was, and for every payment status and
\* every stored status the response's success flag is (payment status = paid).
C28_OtherStatusKeepsStatus ==
  \A sid \in 1..nsessions, payment_status \in PaymentStatuses, session_pi \in SessionIntents :
    \A i \in {FindBySession(purchases, sid)} :
      \A r \in {verify_payment(purchases, post_purchases, nsessions, sid, TRUE,
                               payment_status, session_pi, TRUE)} :
        i # NULL =>
          /\ r.success = (payment_status = "paid")
          /\ payment_status \notin {"paid", "unpaid"} =>
               \A j \in DOMAIN purchases : r.out.purchases[j].status = purchases[j].status

\* a completed Purchase and a failed Purchase are both pulled while the
\* processor reports no_payment_required
C28_Witness ==
  /\ \E i \in DOMAIN purchases :
       /\ purchases[i].status = "completed"
       /\ FindBySession(purchases, purchases[i].stripe_session_id) = i
       /\ ~verify_payment(purchases, post_purchases, nsessions, purchases[i].stripe_session_id,
                          TRUE, "no_payment_required", NULL, TRUE).success
  /\ \E i \in DOMAIN purchases :
       /\ purchases[i].status = "failed"
       /\ FindBySession(purchases, purchases[i].stripe_session_id) = i
       /\ verify_payment(purchases, post_purchases, nsessions, purchases[i].stripe_session_id,
                         TRUE, "no_payment_required", NULL, TRUE).out.purchases[i].status = "failed"

\* C27: access is never revoked: when the access check grants a (user, post)
\* pair with reason purchased, the check made after any further webhook event or
\* verification pull, at the same or a later time, grants the pair as well.
C27_AccessNeverRevoked ==
  [][\A post_id \in PostIds, user_id \in PathUserIds, t \in 0..MaxTime, later \in 0..MaxTime :
       \A d \in {check_post_access(purchases, post_id, user_id, t)} :
         (d.hasAccess /\ d.reason = "purchased" /\ later >= t) =>
           check_post_access(purchases', post_id, user_id, later).hasAccess]_vars

\* the rows of the table before are the first rows of the table after, unchanged
KeepsRows(before, after) ==
  /\ Len(after) >= Len(before)
  /\ \A k \in DOMAIN before : after[k] = before[k]

\* every Purchase of the table before is still there, changed at most in its
\* status and its payment-intent handle
KeepsPurchases(before, after) ==
  /\ Len(after) >= Len(before)
  /\ \A i \in DOMAIN before :
       after[i] = [before[i] EXCEPT !.status = after[i].status,
                                    !.stripe_payment_intent_id = after[i].stripe_payment_intent_id]

\* purchase_id values a caller of the direct fulfillment creation may send
AnyPurchaseIds == {NULL} \cup (1..(MaxSessions + 1))

\* C23: no handler deletes a Purchase or a PostPurchase row or changes an
\* existing PostPurchase row; the verification pull and the webhook change at
\* most status and payment-intent handle of existing Purchases and insert none;
\* checkout initiation and the direct fulfillment creation leave every existing
\* Purchase as it was.
C23_FrameOfHandlers ==
  /\ \A md \in Metadatas, priceId \in PriceIds, stripeOk \in BOOLEAN, dbOk \in BOOLEAN :
       \A r \in {create_checkout_session(purchases, post_purchases, nsessions, md.userId,
                                        md.contentId, priceId, stripeOk, dbOk).out} :
         KeepsRows(purchases, r.purchases) /\ r.post_purchases = post_purchases
  /\ \A user_id \in ParamUserIds, post_id \in PostIds, purchase_id \in AnyPurchaseIds,
        dbOk \in BOOLEAN :
       \A r \in {create_post_purchase(purchases, post_purchases, nsessions, user_id, post_id,
                                     purchase_id, 0, "usd", dbOk)} :
         r.purchases = purchases /\ KeepsRows(post_purchases, r.post_purchases)
  /\ \A sid \in 1..MaxSessions, payment_status \in PaymentStatuses, session_pi \in SessionIntents,
        dbOk \in BOOLEAN :
       \A r \in {verify_payment(purchases, post_purchases, nsessions, sid, TRUE, payment_status,
                               session_pi, dbOk).out} :
         /\ KeepsPurchases(purchases, r.purchases) /\ Len(r.purchases) = Len(purchases)
         /\ r.post_purchases = post_purchases
  /\ \A type \in EventTypes, id \in EventIds, session_pi \in SessionIntents,
        dbOk1 \in BOOLEAN, dbOk2 \in BOOLEAN :
       \A r \in {stripe_webhook(purchases, post_purchases, nsessions, "ok", type, id,
                               session_pi, dbOk1, dbOk2)} :
         /\ KeepsPurchases(purchases, r.purchases) /\ Len(r.purchases) = Len(purchases)
         /\ KeepsRows(post_purchases, r.post_purchases)

\* with a completed Purchase and its PostPurchase row stored, a second checkout
\* of the same pair, an expired event for the first session and a direct
\* fulfillment creation for another post are all handled
C23_Witness ==
  /\ \E i \in DOMAIN purchases, k \in DOMAIN post_purchases :
       /\ purchases[i].status = "completed" /\ post_purchases[k].purchase_id = i
       /\ create_checkout_session(purchases, post_purchases, nsessions, purchases[i].user_id,
                                  purchases[i].content_id, "price_123", TRUE, TRUE).out.code = 200
       /\ stripe_webhook(purchases, post_purchases, nsessions, "ok", "checkout.session.expired",
                         purchases[i].stripe_session_id, NULL, TRUE, TRUE).purchases[i].status
            = "expired"
  /\ \E k \in DOMAIN post_purchases : post_purchases[k].purchase_id = NULL
  /\ nsessions < MaxSessions

\* the PostPurchase row the direct fulfillment creation inserts
DirectRow(user_id, post_id, purchase_id) ==
  [user_id |-> user_id, post_id |-> post_id, purchase_id |-> purchase_id,
   amount |-> 0, currency |-> "usd"]

\* C29 as stated: 404 for an unknown user or post, 409 for an existing
\* PostPurchase of the pair, both without a change; every other call, the storage
\* being healthy, adds exactly one PostPurchase row.
C29_OtherwiseAlwaysAdds ==
  \A user_id \in ParamUserIds, post_id \in PostIds, purchase_id \in AnyPurchaseIds :
    \A r \in {create_post_purchase(purchases, post_purchases, nsessions, user_id, post_id,
                                  purchase_id, 0, "usd", TRUE)} :
      IF user_id \notin Users \/ post_id \notin DOMAIN posts
      THEN r = Out(404, purchases, post_purchases, nsessions)
      ELSE IF ExistingPostPurchase(post_purchases, user_id, post_id)
      THEN r = Out(409, purchases, post_purchases, nsessions)
      ELSE r.post_purchases = Append(post_purchases, DirectRow(user_id, post_id, purchase_id))

\* C29 as amended: 404 for an unknown user or post, 409 for an existing
\* PostPurchase of the pair, both without a change; otherwise exactly one
\* PostPurchase row is added (200) when purchase_id is absent or names an existing
\* Purchase and the commit succeeds, and the call ends 500 without a change when
\* the insert is refused; handled one after another, such calls and
\* checkout.session.completed webhooks never leave two rows for one pair.
C29_DirectCreationOutcomes ==
  /\ UniqueFulfillment(post_purchases)
  /\ \A user_id \in ParamUserIds, post_id \in PostIds, purchase_id \in AnyPurchaseIds,
        dbOk \in BOOLEAN :
       \A r \in {create_post_purchase(purchases, post_purchases, nsessions, user_id, post_id,
                                     purchase_id, 0, "usd", dbOk)} :
         IF user_id \notin Users \/ post_id \notin DOMAIN posts
         THEN r = Out(404, purchases, post_purchases, nsessions)
         ELSE IF ExistingPostPurchase(post_purchases, user_id, post_id)
         THEN r = Out(409, purchases, post_purchases, nsessions)
         ELSE IF dbOk /\ (purchase_id = NULL \/ purchase_id \in DOMAIN purchases)
         THEN r = Out(200, purchases,
                      Append(post_purchases, DirectRow(user_id, post_id, purchase_id)), nsessions)
         ELSE r = Out(500, purchases, post_purchases, nsessions)

\* a row created by the direct call and a row created by the webhook are stored;
\* a direct call for the webhook's pair is refused with 409, the completed event
\* for the completed Purchase of the direct call's pair adds no row
C29_Witness ==
  /\ \E k \in DOMAIN post_purchases :
       /\ post_purchases[k].purchase_id # NULL
       /\ create_post_purchase(purchases, post_purchases, nsessions, post_purchases[k].user_id,
                               post_purchases[k].post_id, NULL, 0, "usd", TRUE).code = 409
  /\ \E k \in DOMAIN post_purchases, i \in DOMAIN purchases :
       /\ post_purchases[k].purchase_id = NULL
       /\ CanInt(purchases[i].user_id)
       /\ PyInt(purchases[i].user_id) = post_purchases[k].user_id
       /\ purchases[i].content_id = post_purchases[k].post_id
       /\ purchases[i].status = "completed"
       /\ stripe_webhook(purchases, post_purchases, nsessions, "ok", "checkout.session.completed",
                         purchases[i].stripe_session_id, NULL, TRUE, TRUE).post_purchases
            = post_purchases

\* a user string with a completed Purchase of the post
HasCompleted(user_id, post_id) == CompletedPurchase(purchases, user_id, post_id) # NULL

\* C30 as stated: a denial carries only the summary fields of the post (no
\* html_content, no attachments), and two users get different responses for a
\* post only if one has a completed Purchase of it and the other has none.
C30_OnlyPurchaseStateDistinguishes ==
  \A post_id \in PostIds, t \in 0..MaxTime :
    /\ \A user_id \in PathUserIds :
         \A b \in {check_post_access_body(purchases, post_id, user_id, t)} :
           ~b.hasAccess => /\ b.post \subseteq SummaryFields
                           /\ "html_content" \notin b.post /\ "attachments" \notin b.post
    /\ \A u1 \in PathUserIds, u2 \in PathUserIds :
         check_post_access_body(purchases, post_id, u1, t)
            # check_post_access_body(purchases, post_id, u2, t)
           => HasCompleted(u1, post_id) # HasCompleted(u2, post_id)

\* C30 as amended: a denial carries only the summary fields of the post (no
\* html_content, no attachments) and only a grant carries the full post; two
\* users of whom both or neither have a completed Purchase of the post get the
\* same response except for purchaseId, which is the id of the user's own
\* completed Purchase.
C30_DisclosureOnlyOnGrant ==
  \A post_id \in PostIds, t \in 0..MaxTime :
    /\ \A user_id \in PathUserIds :
         \A b \in {check_post_access_body(purchases, post_id, user_id, t)},
            d \in {check_post_access(purchases, post_id, user_id, t)} :
           /\ b.code = d.code /\ b.hasAccess = d.hasAccess /\ b.reason = d.reason
           /\ b.post = IF b.code # 200 THEN {}
                       ELSE IF b.hasAccess THEN PostColumns ELSE SummaryFields
           /\ ~b.hasAccess => "html_content" \notin b.post /\ "attachments" \notin b.post
           /\ b.purchaseId = IF b.reason = "purchased"
                             THEN CompletedPurchase(purchases, user_id, post_id) ELSE NULL
    /\ \A u1 \in PathUserIds, u2 \in PathUserIds :
         HasCompleted(u1, post_id) = HasCompleted(u2, post_id) =>
           [check_post_access_body(purchases, post_id, u1, t) EXCEPT !.purchaseId = NULL]
             = [check_post_access_body(purchases, post_id, u2, t) EXCEPT !.purchaseId = NULL]

\* the paid post p1 is available; user "7" has a completed Purchase of it and
\* gets the full post, user "07" has none and gets the summary only
C30_Witness ==
  /\ AvailablePaid("p1", SchedTime)
  /\ HasCompleted("7", "p1") /\ ~HasCompleted("07", "p1")
  /\ check_post_access_body(purchases, "p1", "7", SchedTime).post = PostColumns
  /\ check_post_access_body(purchases, "p1", "07", SchedTime).post = SummaryFields
  /\ ~check_post_access_body(purchases, "p1", "07", SchedTime).hasAccess

\* C25: when the processor rejects the payment-intent creation, the request ends
\* 400 and neither the purchases table nor any user's stored customer id changes.
C25_RejectedIntentLeavesStateUntouched ==
  \A md \in IntentMetadatas, custOk \in BOOLEAN, dbOk1 \in BOOLEAN :
    \A c \in {ConfirmIntent(customers, Len(intents), md.userId, 2000, "pm_1", custOk, dbOk1, TRUE)},
       r \in {create_payment_intent(purchases, customers, Len(intents), md.userId, md.contentId,
                                    2000, "pm_1", custOk, dbOk1, FALSE, TRUE)} :
      \* the requests that reach PaymentIntent.create
      c.code = NULL =>
        /\ r.code = 400
        /\ r.purchases = purchases
        /\ r.customers = customers

\* the handles of the intents made by create_payment_intent
IntentHandles == {IntentHandle(n) : n \in 1..MaxIntents}

\* C26: once the processor has sent payment_intent.succeeded for an intent made by
\* create_payment_intent, eventually the request has finished and every
\* Purchase it inserted for the intent is completed.
C26_SucceededLeadsToCompleted ==
  \A h \in IntentHandles :
    ([type |-> "payment_intent.succeeded", id |-> h] \in events)
      ~> ( /\ \A c \in 1..NumCreators : ~(creators[c].pc = "confirmed" /\ creators[c].pi = h)
           /\ \A i \in DOMAIN purchases :
                purchases[i].stripe_payment_intent_id = h => purchases[i].status = "completed" )

====
